---- MODULE Spec2Model ----
\* A model of the Option container of excoptional (src/src/index.ts).
\*
\* Option instances are objects on a heap; an instance is referred to by its
\* position in the heap, so "the receiver itself" and "structurally equal"
\* are different things, as they are in JavaScript.  Every public operation
\* is one action; the methods themselves are operators over a machine record
\*   [heap, calls, out, threw, ret]
\* that threads the heap, the callback invocations, the console output, a
\* pending exception and the returned value through nested calls.
EXTENDS Integers, Sequences, FiniteSets, TLC

VARIABLES heap, last, ret, threw, calls, out

vars == <<heap, last, ret, threw, calls, out>>

\* ------------------------------------------------------------------ bounds
\* The most Option instances a run allocates.
MaxHeap == 2

\* ------------------------------------------------------- JavaScript values
Undefined == [t |-> "undefined"]
Null == [t |-> "null"]
Num(n) == [t |-> "number", n |-> n]
NegZero == [t |-> "number", n |-> 0, neg |-> TRUE]
Str(s) == [t |-> "string", s |-> s]
Bool(b) == [t |-> "boolean", b |-> b]
Sym == [t |-> "symbol"]
\* An empty collection ([]), held by reference.
EmptyArr == [t |-> "object", cls |-> "Array", id |-> 1]
\* A plain object ({name: 'sam'}), held by reference.
PlainObj == [t |-> "object", cls |-> "Object", id |-> 2]
\* A function value: its code and the values it has captured.
Fn(f, args) == [t |-> "function", f |-> f, args |-> args]
\* A reference to the Option instance at heap position i.
Ref(i) == [t |-> "Option", id |-> i]
\* The array a method returns (toArray) and the Set it returns (toSet).
Arr(items) == [t |-> "array", items |-> items]
SetOf(items) == [t |-> "set", items |-> items]

IsRef(v) == v.t = "Option"

\* typeof v
TypeOf(v) ==
    CASE v.t = "null" -> "object"
      [] v.t = "Option" -> "object"
      [] v.t = "array" -> "object"
      [] v.t = "set" -> "object"
      [] OTHER -> v.t

\* The falsy values: what `val ? a : b` sends to b.
Falsy == {Undefined, Null, Num(0), NegZero, Str(""), Bool(FALSE)}
Truthy(v) == v \notin Falsy

\* v === w.  +0 and -0 are the same number; objects compare by reference.
StrictEquals(v, w) ==
    IF v.t = "number" /\ w.t = "number" THEN v.n = w.n ELSE v = w

\* ----------------------------------------------------------- the machine
GetNoneError == "Error: Attempted to get a None"
TypeError == "TypeError"

Machine(h) == [heap |-> h, calls |-> <<>>, out |-> <<>>, threw |-> "", ret |-> Undefined]
Return(m, v) == [m EXCEPT !.ret = v]
Throw(m, e) == [m EXCEPT !.threw = e, !.ret = Undefined]
Ok(m) == m.threw = ""

\* new Option(val).  An instance has the one field val; `by` is not part of
\* the instance: it records which of the two factories, None or Some, made it.
New(m, val, by) ==
    [m EXCEPT !.heap = Append(@, [val |-> val, by |-> by]),
              !.ret = Ref(Len(m.heap) + 1)]

None(m) == New(m, Undefined, "None")

\* Some, were it to refuse the absence marker.
Some_rejectsUndefined(m, val) ==
    IF val = Undefined THEN Throw(m, TypeError) ELSE New(m, val, "Some")

Some(m, val) == New(m, val, "Some")

\* ------------------------------------------------------------- callbacks
\* The functions a caller passes in.  Each is total on every value.
\*   id        x => x
\*   const     x => c           (c captured: a plain value, undefined, or an
\*                               Option the caller already holds)
\*   succ      x => typeof x === 'number' ? x + 1 : x
\*   isNumber  x => typeof x === 'number'
\*   someOf    x => Some(x)
\*   none      x => None()
\*   pair      a => b => [a, b]  (curried, two parameters)
\*   add3      a => b => c => a + b + c  (curried, three parameters; its
\*             arguments are numbers)
\*   bind      x => f(x).flatMap(g)  (f and g captured)
\*   not       x => !p(x)            (p captured)
\*   compose   x => g(f(x))          (f and g captured)
RECURSIVE Apply(_, _, _)
RECURSIVE flatMap(_, _, _)
RECURSIVE flatMap_fallsBack(_, _, _)
Apply(m, fn, x) ==
    LET c == [m EXCEPT !.calls = Append(@, [fn |-> fn, arg |-> x])] IN
    CASE fn.f = "id" -> Return(c, x)
      [] fn.f = "const" -> Return(c, fn.args[1])
      [] fn.f = "succ" -> Return(c, IF x.t = "number" THEN Num(x.n + 1) ELSE x)
      [] fn.f = "isNumber" -> Return(c, Bool(x.t = "number"))
      [] fn.f = "someOf" -> Some(c, x)
      [] fn.f = "none" -> None(c)
      [] fn.f = "pair" ->
            Return(c, IF Len(fn.args) = 0 THEN Fn("pair", <<x>>)
                      ELSE Arr(<<fn.args[1], x>>))
      [] fn.f = "add3" ->
            Return(c, IF Len(fn.args) < 2 THEN Fn("add3", Append(fn.args, x))
                      ELSE Num(fn.args[1].n + fn.args[2].n + x.n))
      [] fn.f = "bind" ->
            LET a == Apply(c, fn.args[1], x)
            IN  IF Ok(a) THEN flatMap(a, a.ret.id, fn.args[2]) ELSE a
      [] fn.f = "not" ->
            LET a == Apply(c, fn.args[1], x)
            IN  IF Ok(a) THEN Return(a, Bool(~Truthy(a.ret))) ELSE a
      [] fn.f = "compose" ->
            LET a == Apply(c, fn.args[1], x)
            IN  IF Ok(a) THEN Apply(a, fn.args[2], a.ret) ELSE a

\* ------------------------------------------------------ the Option class
\* isNone, were it to test `== null`, which null passes too.
isNone_looseNull(m, this) == m.heap[this].val \in {Undefined, Null}

isNone(m, this) == m.heap[this].val = Undefined

\* isSome, were it to test the value's truthiness.
isSome_truthy(m, this) == Truthy(m.heap[this].val)

isSome(m, this) == m.heap[this].val # Undefined

exists(m, this) == isSome(m, this)

nonEmpty(m, this) == isSome(m, this)

\* get, were it to return the stored value whatever it is.
get_rawVal(m, this) == Return(m, m.heap[this].val)

get(m, this) ==
    IF isSome(m, this) THEN Return(m, m.heap[this].val) ELSE None(m)

internalGet(m, this) ==
    IF isSome(m, this) THEN Return(m, m.heap[this].val)
    ELSE Throw(m, GetNoneError)

\* getOrElse, were it written `this.val || otherVal`.
getOrElse_falsy(m, this, otherVal) ==
    IF Truthy(m.heap[this].val) THEN Return(m, m.heap[this].val)
    ELSE Return(m, otherVal)

getOrElse(m, this, otherVal) ==
    IF isSome(m, this) THEN internalGet(m, this) ELSE Return(m, otherVal)

\* orElse, were it to prefer the other Option whenever that one is present.
orElse_prefersOther(m, this, otherOption) ==
    IF m.heap[otherOption.id].val # Undefined THEN Return(m, otherOption)
    ELSE Return(m, Ref(this))

orElse(m, this, otherOption) ==
    IF isSome(m, this) THEN Return(m, Ref(this)) ELSE Return(m, otherOption)

\* map, were it to leave an Option that fn returns unwrapped, as then does.
map_unwrapped(m, this, fn) ==
    IF isSome(m, this)
    THEN LET a == Apply(m, fn, m.heap[this].val)
         IN  IF IsRef(a.ret) THEN a ELSE Some(a, a.ret)
    ELSE None(m)

\* map, were it to test the value's truthiness.
map_truthy(m, this, fn) ==
    IF Truthy(m.heap[this].val)
    THEN LET a == Apply(m, fn, m.heap[this].val) IN Some(a, a.ret)
    ELSE None(m)

map(m, this, fn) ==
    IF isSome(m, this)
    THEN LET g == internalGet(m, this)
             a == IF Ok(g) THEN Apply(g, fn, g.ret) ELSE g
         IN  IF Ok(a) THEN Some(a, a.ret) ELSE a
    ELSE None(m)

Option_map(m, fn, opt) == map(m, opt, fn)

\* lift, were it built on flatMap, which does not wrap what fn returns.
Option_lift_unwrapped(m, fn, opt) ==
    IF m.heap[opt].val # Undefined THEN Apply(m, fn, m.heap[opt].val) ELSE None(m)

Option_lift(m, fn, opt) == Option_map(m, fn, opt)

\* flatMap, were it to fall back to the receiver when fn returns an absent
\* Option.
flatMap_fallsBack(m, this, fn) ==
    IF m.heap[this].val # Undefined
    THEN LET a == Apply(m, fn, m.heap[this].val)
         IN  IF Ok(a) /\ a.heap[a.ret.id].val = Undefined
             THEN Return(a, Ref(this)) ELSE a
    ELSE None(m)

\* flatMap, were it to wrap what fn returns, as map does.
flatMap_wrapped(m, this, fn) == map(m, this, fn)

flatMap(m, this, fn) ==
    IF isSome(m, this)
    THEN LET g == internalGet(m, this)
         IN  IF Ok(g) THEN Apply(g, fn, g.ret) ELSE g
    ELSE None(m)

Option_flatMap(m, fn, opt) == flatMap(m, opt, fn)

\* ap, were an absent receiver to hand back the other Option.
ap_absentKeepsOther(m, this, opt) ==
    IF m.heap[this].val = Undefined THEN Return(m, Ref(opt))
    ELSE IF TypeOf(m.heap[this].val) # "function" THEN None(m)
    ELSE map(m, opt, m.heap[this].val)

\* ap, were a receiver that holds no function to be handed back as it is.
ap_keepsNonFunction(m, this, opt) ==
    IF m.heap[this].val = Undefined THEN None(m)
    ELSE IF TypeOf(m.heap[this].val) # "function" THEN Return(m, Ref(this))
    ELSE map(m, opt, m.heap[this].val)

ap(m, this, opt) ==
    IF isNone(m, this) THEN None(m)
    ELSE IF TypeOf(get(m, this).ret) # "function" THEN None(m)
    ELSE LET underlyingFunction == get(m, this).ret
         IN  map(m, opt, underlyingFunction)

\* fold, were it to drop alternativeVal.
fold_noAlternative(m, this, fn, alternativeVal) ==
    LET a == map(m, this, fn)
    IN  IF Ok(a) THEN Return(a, a.heap[a.ret.id].val) ELSE a

\* recurse, were it to stop at the first absent accumulator.
RECURSIVE recurse_stopsAtNone(_, _, _)
recurse_stopsAtNone(m, opt, shadowArgs) ==
    IF Len(shadowArgs) = 0 \/ m.heap[opt].val = Undefined THEN Return(m, Ref(opt))
    ELSE LET updatedValue == ap(m, opt, shadowArgs[1])
         IN  IF Ok(updatedValue)
             THEN recurse_stopsAtNone(updatedValue, updatedValue.ret.id, Tail(shadowArgs))
             ELSE updatedValue

\* The helper of liftN: applies the accumulator opt to each of shadowArgs.
RECURSIVE recurse(_, _, _)
recurse(m, opt, shadowArgs) ==
    IF Len(shadowArgs) = 0 THEN Return(m, Ref(opt))
    ELSE LET updatedValue == ap(m, opt, shadowArgs[1])
         IN  IF Ok(updatedValue)
             THEN recurse(updatedValue, updatedValue.ret.id, Tail(shadowArgs))
             ELSE updatedValue

\* liftN, were the accumulator seeded from args[0] and then applied to the
\* arguments after it only.
Option_liftN_skipsFirst(m, fn, args) ==
    LET initialValue == map(m, args[1], fn)
    IN  IF Ok(initialValue)
        THEN recurse(initialValue, initialValue.ret.id, Tail(args))
        ELSE initialValue

\* args: the instances passed after fn, at least one.  () => fn is the
\* callback const(fn).
Option_liftN(m, fn, args) ==
    LET initialValue == map(m, args[1], Fn("const", <<fn>>))
    IN  IF Ok(initialValue)
        THEN recurse(initialValue, initialValue.ret.id, args)
        ELSE initialValue

fold(m, this, fn, alternativeVal) ==
    LET a == map(m, this, fn)
    IN  IF Ok(a) THEN getOrElse(a, a.ret.id, alternativeVal) ELSE a

\* then, were it to wrap whatever fn returns, as map does.
then_alwaysWraps(m, this, fn) == map(m, this, fn)

\* then, were it to return whatever fn returns, as flatMap does.
then_neverWraps(m, this, fn) ==
    IF m.heap[this].val # Undefined THEN Apply(m, fn, m.heap[this].val) ELSE None(m)

then(m, this, fn) ==
    IF isSome(m, this)
    THEN LET g == internalGet(m, this)
             result == IF Ok(g) THEN Apply(g, fn, g.ret) ELSE g
         IN  IF ~Ok(result) THEN result
             ELSE IF IsRef(result.ret) THEN result
             ELSE Some(result, result.ret)
    ELSE None(m)

\* flatten, were it to hand out whatever the receiver holds.
flatten_unwrapsAll(m, this) == get(m, this)

flatten(m, this) ==
    IF isNone(m, this) THEN None(m)
    ELSE IF isSome(m, this) /\ IsRef(get(m, this).ret) THEN internalGet(m, this)
    ELSE Return(m, Ref(this))

\* filter, were it to keep every present receiver.
filter_keepsPresent(m, this, filterFn) ==
    IF m.heap[this].val # Undefined THEN Return(m, Ref(this)) ELSE None(m)

\* The test of filter, were filterFn run a second time on the value.
Test_twice(m, this, filterFn) ==
    Apply(Apply(m, filterFn, m.heap[this].val), filterFn, m.heap[this].val)

\* filterFn(this.internalGet()), where the receiver is a Some.
Test(m, this, filterFn) ==
    LET g == internalGet(m, this)
    IN  IF Ok(g) THEN Apply(g, filterFn, g.ret) ELSE g

\* filter, were it to empty the receiver in place when the test fails.
filter_clearsReceiver(m, this, filterFn) ==
    IF m.heap[this].val # Undefined
    THEN LET p == Apply(m, filterFn, m.heap[this].val)
         IN  IF Truthy(p.ret) THEN Return(p, Ref(this))
             ELSE [p EXCEPT !.heap[this].val = Undefined, !.ret = Ref(this)]
    ELSE None(m)

filter(m, this, filterFn) ==
    IF isSome(m, this)
    THEN LET p == Test(m, this, filterFn)
         IN  IF ~Ok(p) THEN p
             ELSE IF Truthy(p.ret) THEN Return(p, Ref(this)) ELSE None(p)
    ELSE None(m)

\* filterNot, were it to keep what filter keeps.
filterNot_asFilter(m, this, filterFn) ==
    IF m.heap[this].val = Undefined THEN Return(m, Ref(this))
    ELSE LET p == Apply(m, filterFn, m.heap[this].val)
         IN  IF Truthy(p.ret) THEN Return(p, Ref(this)) ELSE None(p)

filterNot(m, this, filterFn) ==
    IF isSome(m, this)
    THEN LET p == Test(m, this, filterFn)
         IN  IF ~Ok(p) THEN p
             ELSE IF Truthy(p.ret) THEN None(p) ELSE Return(p, Ref(this))
    ELSE Return(m, Ref(this))

\* equalityFn(this.internalGet(), val); the default equalityFn is ===.
Equal(m, this, val, equalityFn) ==
    LET g == internalGet(m, this)
        c == [g EXCEPT !.calls = Append(@, [fn |-> equalityFn, arg |-> Arr(<<g.ret, val>>)])]
    IN  IF ~Ok(g) THEN g
        ELSE IF equalityFn = Undefined THEN Return(g, Bool(StrictEquals(g.ret, val)))
        ELSE IF equalityFn.f = "sameType" THEN Return(c, Bool(TypeOf(g.ret) = TypeOf(val)))
        ELSE Return(c, equalityFn.args[1])

\* contains, were it to compare with === whatever equalityFn is passed.
contains_alwaysStrict(m, this, val, equalityFn) ==
    Return(m, Bool(m.heap[this].val # Undefined
                   /\ StrictEquals(m.heap[this].val, val)))

contains(m, this, val, equalityFn) ==
    IF isSome(m, this)
    THEN LET e == Equal(m, this, val, equalityFn)
         IN  IF ~Ok(e) THEN e ELSE Return(e, Bool(Truthy(e.ret)))
    ELSE Return(m, Bool(FALSE))

toArray(m, this) ==
    IF isSome(m, this)
    THEN LET g == internalGet(m, this)
         IN  IF Ok(g) THEN Return(g, Arr(<<g.ret>>)) ELSE g
    ELSE Return(m, Arr(<<>>))

\* toSet, were it to test the value's truthiness.
toSet_truthy(m, this) ==
    IF Truthy(m.heap[this].val) THEN Return(m, SetOf({m.heap[this].val}))
    ELSE Return(m, SetOf({}))

toSet(m, this) ==
    IF isSome(m, this)
    THEN LET g == internalGet(m, this)
         IN  IF Ok(g) THEN Return(g, SetOf({g.ret})) ELSE g
    ELSE Return(m, SetOf({}))

RECURSIVE toString(_, _)
\* `${v}`: the string a template literal makes of v.  A Symbol has none (a
\* TypeError); an Option answers with its own toString.
TemplateString(m, v) ==
    CASE v.t = "undefined" -> Return(m, Str("undefined"))
      [] v.t = "null" -> Return(m, Str("null"))
      [] v.t = "number" -> Return(m, Str(ToString(v.n)))
      [] v.t = "string" -> Return(m, v)
      [] v.t = "boolean" -> Return(m, Str(IF v.b THEN "true" ELSE "false"))
      [] v.t = "symbol" -> Throw(m, TypeError)
      [] v.t = "function" -> Return(m, Str("function " \o v.f))
      [] v.t = "object" ->
            Return(m, Str(IF v.cls = "Array" THEN "" ELSE "[object Object]"))
      [] v.t = "Option" -> toString(m, v.id)

toString(m, this) ==
    IF isSome(m, this)
    THEN LET g == internalGet(m, this)
             s == IF Ok(g) THEN TemplateString(g, g.ret) ELSE g
         IN  IF Ok(s) THEN Return(s, Str("Some(" \o s.ret.s \o ")")) ELSE s
    ELSE Return(m, Str("None"))

toStr(m, this) == toString(m, this)

\* console.log(stringToLog)
ConsoleLog(m, stringToLog) ==
    [m EXCEPT !.out = Append(@, stringToLog), !.ret = Undefined]

log(m, this, customToString) ==
    LET s == IF customToString # Undefined
             THEN Apply(m, customToString, Ref(this))
             ELSE toStr(m, this)
    IN  IF Ok(s) THEN ConsoleLog(s, s.ret) ELSE s

logAndContinue(m, this, customToString) ==
    LET l == log(m, this, customToString)
    IN  IF Ok(l) THEN Return(l, Ref(this)) ELSE l

\* of, were it to test `val !== undefined`.
Option_of_undefinedOnly(m, val) ==
    IF val # Undefined THEN Some(m, val) ELSE None(m)

Option_of(m, val) == IF Truthy(val) THEN Some(m, val) ELSE None(m)

\* ------------------------------------------------------------ the caller
\* What a caller passes to Option.of.
Prims == {Undefined, Null, Num(0), NegZero, Num(1), Str(""), Bool(FALSE),
          EmptyArr, Sym, Fn("id", <<>>)}

\* What a caller passes to Some: the same, but for -0, which an instance
\* holds as it holds 0.
Payloads == Prims \ {NegZero}

Refs == {Ref(i) : i \in 1..Len(heap)}

\* The fallbacks a caller passes to getOrElse and fold.
Fallbacks == {Undefined, Num(1)}

\* The Option-returning callbacks a caller passes to flatMap; the last one
\* returns an Option the caller made before: the first one it made.
OptionCallbacks == {Fn("someOf", <<>>), Fn("none", <<>>)}
                   \cup {Fn("const", <<r>>) : r \in Refs \cap {Ref(1)}}

\* The callbacks a caller passes to map: plain-value-returning ones, one
\* that returns undefined, and Option-returning ones.
Callbacks == {Fn("id", <<>>), Fn("succ", <<>>), Fn("const", <<Undefined>>)}
             \cup OptionCallbacks

\* The callbacks a caller passes to fold.
PlainCallbacks == {Fn("succ", <<>>), Fn("const", <<Undefined>>)}

\* The predicates a caller passes to filter and filterNot.
Predicates == {Fn("isNumber", <<>>), Fn("const", <<Bool(FALSE)>>)}

\* The equality functions a caller passes to contains; Undefined: none, so
\* the default (===) is used.  sameType: (a, b) => typeof a === typeof b.
EqualityFns == {Undefined, Fn("sameType", <<>>)}

\* The values a caller asks contains about.
Needles == {Num(0), Null}

\* The customToString functions a caller passes to log; Undefined: none.
\* A customToString returns a string: here a fixed one.
Loggers == {Undefined, Fn("const", <<Str("I AM HERE")>>)}

NoArg == Undefined

\* One call: the operation, its receiver (0: a static call), its function
\* argument, its value argument, and the heap size when it was made.
Call(op, this, fn, arg) ==
    [op |-> op, this |-> this, fn |-> fn, arg |-> arg, n0 |-> Len(heap)]

\* The call returns (or throws): the machine becomes the program's state.
Finish(call, m) ==
    /\ Len(m.heap) <= MaxHeap
    /\ heap' = m.heap
    /\ ret' = m.ret
    /\ threw' = m.threw
    /\ calls' = m.calls
    /\ out' = m.out
    /\ last' = call

\* A method that returns a plain boolean.
FinishBool(call, b) == Finish(call, Return(Machine(heap), Bool(b)))

Init ==
    /\ heap = <<>>
    /\ last = [op |-> "", this |-> 0, fn |-> NoArg, arg |-> NoArg, n0 |-> 0]
    /\ ret = Undefined
    /\ threw = ""
    /\ calls = <<>>
    /\ out = <<>>

CallNone == Finish(Call("None", 0, NoArg, NoArg), None(Machine(heap)))

CallSome ==
    \E v \in Payloads \cup Refs :
        Finish(Call("Some", 0, NoArg, v), Some(Machine(heap), v))

CallOf ==
    \E v \in Prims \cup (Refs \cap {Ref(1)}) :
        Finish(Call("of", 0, NoArg, v), Option_of(Machine(heap), v))

CallIsNone ==
    \E this \in 1..Len(heap) :
        FinishBool(Call("isNone", this, NoArg, NoArg), isNone(Machine(heap), this))

CallIsSome ==
    \E this \in 1..Len(heap) :
        FinishBool(Call("isSome", this, NoArg, NoArg), isSome(Machine(heap), this))

CallExists ==
    \E this \in 1..Len(heap) :
        FinishBool(Call("exists", this, NoArg, NoArg), exists(Machine(heap), this))

CallNonEmpty ==
    \E this \in 1..Len(heap) :
        FinishBool(Call("nonEmpty", this, NoArg, NoArg), nonEmpty(Machine(heap), this))

CallGet ==
    \E this \in 1..Len(heap) :
        Finish(Call("get", this, NoArg, NoArg), get(Machine(heap), this))

CallGetOrElse ==
    \E this \in 1..Len(heap), v \in Fallbacks :
        Finish(Call("getOrElse", this, NoArg, v), getOrElse(Machine(heap), this, v))

CallMap ==
    \E this \in 1..Len(heap), fn \in Callbacks :
        Finish(Call("map", this, fn, NoArg), map(Machine(heap), this, fn))

CallFlatMap ==
    \E this \in 1..Len(heap), fn \in OptionCallbacks :
        Finish(Call("flatMap", this, fn, NoArg), flatMap(Machine(heap), this, fn))

CallOrElse ==
    \E this \in 1..Len(heap), other \in Refs :
        Finish(Call("orElse", this, NoArg, other), orElse(Machine(heap), this, other))

CallStaticMap ==
    \E opt \in 1..Len(heap), fn \in {Fn("succ", <<>>)} :
        Finish(Call("Option.map", 0, fn, Ref(opt)), Option_map(Machine(heap), fn, opt))

CallLift ==
    \E opt \in 1..Len(heap), fn \in {Fn("succ", <<>>)} :
        Finish(Call("Option.lift", 0, fn, Ref(opt)), Option_lift(Machine(heap), fn, opt))

CallStaticFlatMap ==
    \E opt \in 1..Len(heap), fn \in {Fn("someOf", <<>>)} :
        Finish(Call("Option.flatMap", 0, fn, Ref(opt)),
               Option_flatMap(Machine(heap), fn, opt))

CallAp ==
    \E this \in 1..Len(heap), opt \in 1..Len(heap) :
        Finish(Call("ap", this, NoArg, Ref(opt)), ap(Machine(heap), this, opt))

CallFold ==
    \E this \in 1..Len(heap), fn \in PlainCallbacks, v \in Fallbacks :
        Finish(Call("fold", this, fn, v), fold(Machine(heap), this, fn, v))

CallThen ==
    \E this \in 1..Len(heap), fn \in Callbacks :
        Finish(Call("then", this, fn, NoArg), then(Machine(heap), this, fn))

CallFlatten ==
    \E this \in 1..Len(heap) :
        Finish(Call("flatten", this, NoArg, NoArg), flatten(Machine(heap), this))

CallFilter ==
    \E this \in 1..Len(heap), p \in Predicates :
        Finish(Call("filter", this, p, NoArg), filter(Machine(heap), this, p))

CallFilterNot ==
    \E this \in 1..Len(heap), p \in Predicates :
        Finish(Call("filterNot", this, p, NoArg), filterNot(Machine(heap), this, p))

CallContains ==
    \E this \in 1..Len(heap), v \in Needles, eq \in EqualityFns :
        Finish(Call("contains", this, eq, v), contains(Machine(heap), this, v, eq))

CallToArray ==
    \E this \in 1..Len(heap) :
        Finish(Call("toArray", this, NoArg, NoArg), toArray(Machine(heap), this))

CallToSet ==
    \E this \in 1..Len(heap) :
        Finish(Call("toSet", this, NoArg, NoArg), toSet(Machine(heap), this))

CallToString ==
    \E this \in 1..Len(heap) :
        Finish(Call("toString", this, NoArg, NoArg), toString(Machine(heap), this))

CallToStr ==
    \E this \in 1..Len(heap) :
        Finish(Call("toStr", this, NoArg, NoArg), toStr(Machine(heap), this))

CallLog ==
    \E this \in 1..Len(heap), c \in Loggers :
        Finish(Call("log", this, c, NoArg), log(Machine(heap), this, c))

CallLogAndContinue ==
    \E this \in 1..Len(heap), c \in Loggers :
        Finish(Call("logAndContinue", this, c, NoArg),
               logAndContinue(Machine(heap), this, c))

Next ==
    \/ CallNone
    \/ CallSome
    \/ CallOf
    \/ CallIsNone
    \/ CallIsSome
    \/ CallExists
    \/ CallNonEmpty
    \/ CallGet
    \/ CallGetOrElse
    \/ CallMap
    \/ CallFlatMap
    \/ CallOrElse
    \/ CallStaticMap
    \/ CallLift
    \/ CallStaticFlatMap
    \/ CallAp
    \/ CallFold
    \/ CallThen
    \/ CallFlatten
    \/ CallFilter
    \/ CallFilterNot
    \/ CallContains
    \/ CallToArray
    \/ CallToSet
    \/ CallToString
    \/ CallToStr
    \/ CallLog
    \/ CallLogAndContinue

Spec == Init /\ [][Next]_vars

\* ------------------------------------- combining several Options
\* The number of instances that may exist when a combining call is made.
MaxFixture == 3

\* What the Options that are combined hold.
FixturePayloads == {Num(18), Num(4), Fn("succ", <<>>)}

\* The Option-returning callbacks that are chained.
ChainCallbacks == {Fn("someOf", <<>>), Fn("none", <<>>), Fn("const", <<Ref(1)>>)}

\* v => f(v).flatMap(g), for the chained callbacks f and g.
Binds == {Fn("bind", <<f, g>>) : f, g \in ChainCallbacks}

\* The plain callbacks that are composed; one returns undefined.
MapCallbacks == {Fn("succ", <<>>), Fn("const", <<Undefined>>), Fn("isNumber", <<>>)}

\* v => g(f(v)), for the plain callbacks f and g.
Composes == {Fn("compose", <<f, g>>) : f, g \in MapCallbacks}

\* The curried functions passed to liftN, and how many parameters each has.
Curried == {Fn("succ", <<>>), Fn("pair", <<>>), Fn("add3", <<>>)}

Arity(fn) ==
    CASE fn.f = "succ" -> 1
      [] fn.f = "pair" -> 2 - Len(fn.args)
      [] fn.f = "add3" -> 3 - Len(fn.args)

\* The instances a caller combines: those that hold one of the payloads
\* above, or nothing.
Fixtures == {i \in 1..Len(heap) : heap[i].val \in FixturePayloads \cup {Undefined}}

\* The argument lists passed to liftN after fn: one instance or more, and
\* no more than the longest parameter list.
ArgLists == UNION {[1..n -> Fixtures] : n \in 1..Arity(Fn("add3", <<>>))}

\* add3 adds numbers: the Options it is applied to are Options of numbers.
WellTyped(fn, args) ==
    fn.f = "add3" =>
        \A i \in 1..Len(args) : TypeOf(heap[args[i]].val) \in {"number", "undefined"}

\* The constructors, and the state before any call.
Constructors == {"", "None", "Some"}

\* A combining call returns.  It is made on Options fresh from their
\* constructors: instances are never written after construction, and a call
\* reads nothing but its receiver and arguments.
Returned(call, m) ==
    /\ last.op \in Constructors
    /\ heap' = m.heap
    /\ ret' = m.ret
    /\ threw' = m.threw
    /\ calls' = m.calls
    /\ out' = m.out
    /\ last' = call

MakeNone ==
    /\ Len(heap) < MaxFixture
    /\ Returned(Call("None", 0, NoArg, NoArg), None(Machine(heap)))

MakeSome ==
    \E v \in FixturePayloads :
        /\ Len(heap) < MaxFixture
        /\ Returned(Call("Some", 0, NoArg, v), Some(Machine(heap), v))

ChainFlatMap ==
    \E this \in Fixtures, fn \in Binds :
        Returned(Call("flatMap", this, fn, NoArg), flatMap(Machine(heap), this, fn))

ChainMap ==
    \E this \in Fixtures, fn \in Composes :
        Returned(Call("map", this, fn, NoArg), map(Machine(heap), this, fn))

ChainAp ==
    \E this \in Fixtures, opt \in Fixtures :
        Returned(Call("ap", this, NoArg, Ref(opt)), ap(Machine(heap), this, opt))

ChainOrElse ==
    \E this \in Fixtures, other \in Fixtures :
        Returned(Call("orElse", this, NoArg, Ref(other)),
                 orElse(Machine(heap), this, Ref(other)))

CallLiftN ==
    \E fn \in Curried, args \in ArgLists :
        /\ WellTyped(fn, args)
        /\ Returned(Call("Option.liftN", 0, fn, Arr([i \in 1..Len(args) |-> Ref(args[i])])),
                    Option_liftN(Machine(heap), fn, args))

NextCombine ==
    \/ MakeNone
    \/ MakeSome
    \/ ChainFlatMap
    \/ ChainMap
    \/ ChainAp
    \/ ChainOrElse
    \/ CallLiftN

SpecCombine == Init /\ [][NextCombine]_vars

\* ------------------------------------- every operation together
\* liftN on the Options the methods are called on, with the curried
\* functions that take any value.
FrameLiftN ==
    \E fn \in {Fn("succ", <<>>), Fn("pair", <<>>)},
       args \in UNION {[1..n -> 1..Len(heap)] : n \in 1..Arity(Fn("pair", <<>>))} :
        Returned(Call("Option.liftN", 0, fn, Arr([i \in 1..Len(args) |-> Ref(args[i])])),
                 Option_liftN(Machine(heap), fn, args))

\* Every public operation: the methods one by one, and liftN.  A method
\* returns while no more than MaxHeap instances exist, so it is called
\* while no more than that many do.
NextFrame ==
    \/ Len(heap) <= MaxHeap /\ Next
    \/ FrameLiftN

SpecFrame == Init /\ [][NextFrame]_vars

\* ---------------------------------------------------------------- claims
\* The heap as it was when the last call was made.  Instances are never
\* written after construction, so it is the first n0 instances.
Before == SubSeq(heap, 1, last.n0)

\* The value the receiver of the last call holds.
Held == heap[last.this].val

\* expect(v).toStrictEqual(w): the same plain value, or two Option instances
\* whose stored values are in turn structurally equal.  v lives in heap h,
\* w in heap g.
RECURSIVE StructEq(_, _, _, _)
StructEq(h, v, g, w) ==
    IF IsRef(v) /\ IsRef(w) THEN StructEq(h, h[v.id].val, g, g[w.id].val)
    ELSE v = w

\* v is structurally equal to None().
EqualsNone(v) ==
    LET n == None(Machine(heap)) IN IsRef(v) /\ StructEq(heap, v, n.heap, n.ret)

\* v is structurally equal to Some(x).
EqualsSome(v, x) ==
    LET e == Some(Machine(heap), x) IN IsRef(v) /\ StructEq(heap, v, e.heap, e.ret)

\* The falsy values that are nevertheless present values.
FalsyPresent == {Num(0), NegZero, Str(""), Bool(FALSE)}

\* C1: Option.of(v) with a falsy-but-present v (0, -0, "", false) returns a
\* present Option equal to Some(v), never None().
C1_OfFalsyPresentIsSome ==
    (last.op = "of" /\ last.arg \in FalsyPresent) =>
        /\ IsRef(ret)
        /\ isSome(Machine(heap), ret.id)
        /\ EqualsSome(ret, last.arg)

\* C2: Option.of(), Option.of(undefined) and Option.of(null) equal None();
\* Option.of(v) equals Some(v) for every truthy v.
C2_OfAbsentOrTruthy ==
    last.op = "of" =>
        /\ threw = ""
        /\ last.arg \in {Undefined, Null} => EqualsNone(ret)
        /\ Truthy(last.arg) => EqualsSome(ret, last.arg) /\ heap[ret.id].val = last.arg

C2_Witness ==
    /\ last.op = "of"
    /\ last.arg = Null
    /\ IsRef(ret)
    /\ heap[ret.id].val = Undefined

\* C3: no sequence of calls to the public constructors and methods ever
\* raises an error.
C3_NoCallThrows == threw = ""

\* The part of C3 that the code keeps: the guard of internalGet is never hit.
InternalGetGuardUnreachable == threw # GetNoneError

\* C4: for every instance exactly one of isSome() and isNone() is true,
\* exists() and nonEmpty() return what isSome() returns, and the answer is
\* decided by whether the stored value is undefined.
C4_PredicatesPartition ==
    /\ \A this \in 1..Len(heap) :
          LET m == Machine(heap) IN
          /\ isSome(m, this) # isNone(m, this)
          /\ exists(m, this) = isSome(m, this)
          /\ nonEmpty(m, this) = isSome(m, this)
    /\ last.op \in {"isSome", "exists", "nonEmpty"} => ret = Bool(Held # Undefined)
    /\ last.op = "isNone" => ret = Bool(Held = Undefined)

C4_Witness ==
    /\ last.op = "exists"
    /\ Held = Null
    /\ ret = Bool(TRUE)
    /\ ~isNone(Machine(heap), last.this)

\* C5: for every v other than undefined (0, "", false, an empty collection
\* and null included) Some(v).isSome() is true and Some(v).isNone() is false.
C5_SomeOfPresentIsSome ==
    (last.op = "Some" /\ last.arg # Undefined) =>
        /\ IsRef(ret)
        /\ heap[ret.id].val = last.arg
        /\ isSome(Machine(heap), ret.id)
        /\ ~isNone(Machine(heap), ret.id)

C5_Witness ==
    /\ last.op = "Some"
    /\ last.arg = Bool(FALSE)
    /\ isSome(Machine(heap), ret.id)

\* What a call on None() returns, per operation.
LikeNone ==
    /\ threw = ""
    /\ last.op = "isNone" => ret = Bool(TRUE)
    /\ last.op \in {"isSome", "exists", "nonEmpty", "contains"} => ret = Bool(FALSE)
    /\ last.op \in {"get", "map", "flatMap", "then", "flatten", "filter",
                    "filterNot", "ap"} => EqualsNone(ret)
    /\ last.op \in {"getOrElse", "orElse", "fold"} => ret = last.arg
    /\ last.op = "toArray" => ret = Arr(<<>>)
    /\ last.op = "toSet" => ret = SetOf({})
    /\ last.op \in {"toString", "toStr"} => ret = Str("None")
    /\ last.op \in {"log", "logAndContinue"} =>
          /\ out = <<IF last.fn = Undefined THEN Str("None") ELSE Str("I AM HERE")>>
          /\ last.op = "logAndContinue" => ret = Ref(last.this)
    /\ last.op \notin {"log", "logAndContinue"} => calls = <<>>

\* C6: Some(undefined) raises no error and yields a None: isNone() is true,
\* isSome() is false, it is structurally equal to None(), and every method
\* called on it answers as it does on None().
C6_SomeUndefinedIsNone ==
    /\ (last.op = "Some" /\ last.arg = Undefined) =>
          /\ threw = ""
          /\ IsRef(ret)
          /\ isNone(Machine(heap), ret.id)
          /\ ~isSome(Machine(heap), ret.id)
          /\ EqualsNone(ret)
    /\ (last.this # 0 /\ heap[last.this].by = "Some" /\ Held = Undefined) => LikeNone

C6_Witness ==
    /\ last.op = "map"
    /\ heap[last.this].by = "Some"
    /\ Held = Undefined
    /\ EqualsNone(ret)

\* C7: get() returns the contained value of a present receiver and an
\* instance that is a None of an absent one; it never throws.
C7_GetTotal ==
    last.op = "get" =>
        /\ threw = ""
        /\ Held # Undefined => ret = Held /\ heap = Before
        /\ Held = Undefined =>
              /\ IsRef(ret)
              /\ isNone(Machine(heap), ret.id)
              /\ EqualsNone(ret)

C7_Witness ==
    /\ last.op = "get"
    /\ Held = Undefined
    /\ IsRef(ret)
    /\ isNone(Machine(heap), ret.id)

\* C8: Some(v).getOrElse(fallback) is v for every v other than undefined and
\* every fallback; None().getOrElse(fallback) is fallback.
C8_GetOrElseTotal ==
    last.op = "getOrElse" =>
        /\ threw = ""
        /\ ret = IF Held # Undefined THEN Held ELSE last.arg

C8_Witness ==
    /\ last.op = "getOrElse"
    /\ Held = Num(0)
    /\ last.arg = Num(1)
    /\ ret = Num(0)

\* C9: map(fn) on a present Option holding v returns Some(fn(v)); on an
\* absent one it returns None() for any fn; Some(v).map(x => x) equals
\* Some(v).
C9_MapWraps ==
    last.op = "map" =>
        /\ threw = ""
        /\ Held # Undefined =>
              LET e == Some(Apply(Machine(Before), last.fn, Held),
                            Apply(Machine(Before), last.fn, Held).ret)
              IN  /\ heap = e.heap
                  /\ ret = e.ret
                  /\ calls = <<[fn |-> last.fn, arg |-> Held]>>
        /\ (Held # Undefined /\ last.fn = Fn("id", <<>>)) =>
              StructEq(heap, ret, heap, Ref(last.this))
        /\ Held = Undefined => EqualsNone(ret) /\ calls = <<>>

C9_Witness ==
    /\ last.op = "map"
    /\ last.fn = Fn("succ", <<>>)
    /\ Held = Num(0)
    /\ heap[ret.id].val = Num(1)

\* C10: flatMap(fn) on a present Option holding v returns exactly the Option
\* fn(v), with no extra wrapping; on an absent one it returns None().
C10_FlatMapExact ==
    last.op = "flatMap" =>
        /\ threw = ""
        /\ Held # Undefined =>
              LET e == Apply(Machine(Before), last.fn, Held)
              IN  heap = e.heap /\ ret = e.ret
        /\ Held = Undefined => EqualsNone(ret) /\ calls = <<>>

C10_Witness ==
    /\ last.op = "flatMap"
    /\ last.fn = Fn("someOf", <<>>)
    /\ Held = Num(0)
    /\ ret = Ref(last.n0 + 1)
    /\ heap[ret.id].val = Num(0)
    /\ Len(heap) = last.n0 + 1

\* The results of two runs are structurally equal.
SameResult(a, b) == StructEq(a.heap, a.ret, b.heap, b.ret)

\* The result of a run is an Option structurally equal to None().
ResultIsNone(a) == IsRef(a.ret) /\ SameResult(a, None(a))

\* C12: then(fn) always returns an Option: fn(v) as-is when it is an Option,
\* Some(fn(v)) otherwise, None() on an absent receiver; so a chain
\* opt.then(f).then(g), f Option-returning and g plain, yields an Option,
\* and None() when opt is None().
C12_ThenReturnsOption ==
    /\ last.op = "then" =>
          /\ threw = ""
          /\ IsRef(ret)
          /\ Held # Undefined =>
                LET e == Apply(Machine(Before), last.fn, Held)
                    s == Some(e, e.ret)
                IN  IF IsRef(e.ret) THEN heap = e.heap /\ ret = e.ret
                    ELSE heap = s.heap /\ ret = s.ret
          /\ Held = Undefined => EqualsNone(ret) /\ calls = <<>>
    /\ \A this \in 1..Len(heap), f \in OptionCallbacks, g \in PlainCallbacks :
          LET a == then(Machine(heap), this, f)
              b == then(a, a.ret.id, g)
          IN  /\ Ok(a) /\ IsRef(a.ret)
              /\ Ok(b) /\ IsRef(b.ret)
              /\ heap[this].val = Undefined => ResultIsNone(b) /\ b.calls = <<>>

C12_Witness ==
    /\ last.op = "then"
    /\ last.fn = Fn("someOf", <<>>)
    /\ Held = Num(0)
    /\ ret = Ref(Len(heap))
    /\ heap[ret.id].val = Num(0)

\* C13: flatten() always returns an Option: None() on None(), the inner
\* Option when the receiver holds one, the receiver itself when it holds a
\* value that is not an Option.
C13_FlattenReturnsOption ==
    last.op = "flatten" =>
        /\ threw = ""
        /\ IsRef(ret)
        /\ Held = Undefined => EqualsNone(ret)
        /\ IsRef(Held) => ret = Held /\ heap = Before
        /\ (Held # Undefined /\ ~IsRef(Held)) =>
              ret = Ref(last.this) /\ heap = Before

C13_Witness ==
    /\ last.op = "flatten"
    /\ IsRef(Held)
    /\ heap[Held.id].val = Undefined
    /\ ret = Held

\* C14: on a present Option and a boolean predicate p, exactly one of
\* filter(p) and filterNot(p) is the receiver itself and the other is
\* None(): filter keeps it when p is true, filterNot when p is false.
C14_FilterPartition ==
    (last.op \in {"filter", "filterNot"} /\ Held # Undefined) =>
        LET m == Machine(Before)
            f == filter(m, last.this, last.fn)
            n == filterNot(m, last.this, last.fn)
            p == Apply(m, last.fn, Held).ret
            keptF == f.ret = Ref(last.this)
            keptN == n.ret = Ref(last.this)
            mine == IF last.op = "filter" THEN f ELSE n
        IN  /\ threw = ""
            /\ heap = mine.heap /\ ret = mine.ret
            /\ keptF # keptN
            /\ keptF <=> p = Bool(TRUE)
            /\ keptN <=> p = Bool(FALSE)
            /\ ~keptF => ResultIsNone(f)
            /\ ~keptN => ResultIsNone(n)

C14_Witness ==
    /\ last.op = "filter"
    /\ last.fn = Fn("isNumber", <<>>)
    /\ Held = Num(0)
    /\ ret = Ref(last.this)
    /\ ResultIsNone(filterNot(Machine(Before), last.this, last.fn))

\* C15: filterNot(p) equals filter(v => !p(v)) on every receiver, and on
\* None() both filter(p) and filterNot(p) equal None().
C15_FilterNotComplement ==
    /\ \A this \in 1..Len(heap), p \in Predicates :
          LET m == Machine(heap)
              a == filterNot(m, this, p)
              b == filter(m, this, Fn("not", <<p>>))
          IN  /\ Ok(a) /\ Ok(b)
              /\ SameResult(a, b)
              /\ heap[this].val = Undefined =>
                    ResultIsNone(a) /\ ResultIsNone(filter(m, this, p))
    /\ (last.op = "filterNot") =>
          LET b == filter(Machine(Before), last.this, Fn("not", <<last.fn>>))
          IN  threw = "" /\ StructEq(heap, ret, b.heap, b.ret)

C15_Witness ==
    /\ last.op = "filterNot"
    /\ last.fn = Fn("isNumber", <<>>)
    /\ Held = Str("")
    /\ ret = Ref(last.this)

\* C16, as stated: fold on a present Option holding v returns the raw
\* value fn(v).
C16_FoldPresentReturnsRaw ==
    (last.op = "fold" /\ Held # Undefined) =>
        ret = Apply(Machine(Before), last.fn, Held).ret

\* C16, amended: fold(fn, defaultVal) equals map(fn).getOrElse(defaultVal):
\* on a present Option holding v it returns fn(v) unless fn(v) is undefined,
\* and then defaultVal; on None() it returns defaultVal, which is undefined
\* when omitted.
C16_FoldIsMapGetOrElse ==
    last.op = "fold" =>
        LET m == Machine(Before)
            a == map(m, last.this, last.fn)
            e == getOrElse(a, a.ret.id, last.arg)
            v == Apply(m, last.fn, Held).ret
        IN  /\ threw = ""
            /\ heap = e.heap /\ ret = e.ret
            /\ Held = Undefined => ret = last.arg /\ calls = <<>>
            /\ (Held # Undefined /\ v # Undefined) => ret = v
            /\ (Held # Undefined /\ v = Undefined) => ret = last.arg

C16_Witness ==
    /\ last.op = "fold"
    /\ Held = Num(0)
    /\ last.fn = Fn("const", <<Undefined>>)
    /\ last.arg = Num(1)
    /\ ret = Num(1)

\* C11: chaining with flatMap is associative: on every receiver, present or
\* absent, and for Option-returning f and g, opt.flatMap(f).flatMap(g)
\* equals opt.flatMap(v => f(v).flatMap(g)).
C11_FlatMapAssociative ==
    (last.op = "flatMap" /\ last.fn.f = "bind") =>
        LET a == flatMap(Machine(Before), last.this, last.fn.args[1])
            b == flatMap(a, a.ret.id, last.fn.args[2])
        IN  /\ threw = ""
            /\ Ok(b)
            /\ StructEq(heap, ret, b.heap, b.ret)
            /\ Held # Undefined => Tail(calls) = b.calls
            /\ Held = Undefined => calls = <<>> /\ b.calls = <<>>

C11_Witness ==
    /\ last.op = "flatMap"
    /\ last.fn = Fn("bind", <<Fn("someOf", <<>>), Fn("const", <<Ref(1)>>)>>)
    /\ last.this # 1
    /\ Held = Num(4)
    /\ heap[1].val = Num(18)
    /\ ret = Ref(1)

\* C17: ap(other) returns None() when the receiver is absent or holds a
\* value that is not a function; otherwise, holding f, it returns
\* other.map(f): Some(f(x)) when other holds x, None() when other is absent.
C17_ApContract ==
    last.op = "ap" =>
        LET f == Held
            x == heap[last.arg.id].val
            e == map(Machine(Before), last.arg.id, f)
        IN  /\ threw = ""
            /\ TypeOf(f) # "function" =>
                  EqualsNone(ret) /\ calls = <<>> /\ ret = Ref(last.n0 + 1)
            /\ TypeOf(f) = "function" =>
                  /\ heap = e.heap /\ ret = e.ret
                  /\ x # Undefined =>
                        /\ EqualsSome(ret, Apply(Machine(Before), f, x).ret)
                        /\ calls = <<[fn |-> f, arg |-> x]>>
                  /\ x = Undefined => EqualsNone(ret) /\ calls = <<>>

C17_Witness ==
    /\ last.op = "ap"
    /\ Held = Fn("succ", <<>>)
    /\ last.arg.id # last.this
    /\ heap[last.arg.id].val = Num(18)
    /\ ret = Ref(last.n0 + 1)
    /\ heap[ret.id].val = Num(19)

\* What the Options passed to the last liftN call hold, in argument order.
ArgVals == [i \in 1..Len(last.arg.items) |-> heap[last.arg.items[i].id].val]

\* fn(vs[1])(vs[2])...: a curried function applied to one value after
\* another.
RECURSIVE ApplyCurried(_, _)
ApplyCurried(fn, vs) ==
    IF Len(vs) = 0 THEN fn
    ELSE ApplyCurried(Apply(Machine(<<>>), fn, vs[1]).ret, Tail(vs))

\* C18: for a curried fn of N >= 1 parameters and N present Options holding
\* v1..vN, liftN returns Some(fn(v1)...(vN)): the accumulator starts as
\* Some(fn) and each ap step applies it to the next argument, left to right,
\* each argument once.
C18_LiftNApplies ==
    (/\ last.op = "Option.liftN"
     /\ Len(ArgVals) = Arity(last.fn)
     /\ \A i \in 1..Len(ArgVals) : ArgVals[i] # Undefined) =>
        LET N == Len(ArgVals)
            Partial(i) == ApplyCurried(last.fn, SubSeq(ArgVals, 1, i))
        IN  /\ threw = ""
            /\ EqualsSome(ret, ApplyCurried(last.fn, ArgVals))
            /\ ret = Ref(Len(heap))
            /\ Len(heap) = last.n0 + 1 + N
            /\ heap[last.n0 + 1].val = last.fn
            /\ \A i \in 1..N : heap[last.n0 + 1 + i].val = Partial(i)
            /\ calls = <<[fn |-> Fn("const", <<last.fn>>), arg |-> ArgVals[1]]>>
                       \o [i \in 1..N |-> [fn |-> Partial(i - 1), arg |-> ArgVals[i]]]

C18_Witness ==
    /\ last.op = "Option.liftN"
    /\ last.fn = Fn("add3", <<>>)
    /\ ArgVals = <<Num(18), Num(4), Num(4)>>
    /\ heap[ret.id].val = Num(26)

\* C19: if any Option passed to liftN is absent, the result is None(): from
\* the first absent argument on every accumulator is None(), the chain
\* still runs to the end of the argument list, and fn is applied to no
\* argument that follows the absent one.
C19_LiftNAbsent ==
    (/\ last.op = "Option.liftN"
     /\ \E i \in 1..Len(ArgVals) : ArgVals[i] = Undefined) =>
        LET N == Len(ArgVals)
            k == CHOOSE i \in 1..N :
                    /\ ArgVals[i] = Undefined
                    /\ \A j \in 1..(i - 1) : ArgVals[j] # Undefined
        IN  /\ threw = ""
            /\ EqualsNone(ret)
            /\ ret = Ref(Len(heap))
            /\ Len(heap) = last.n0 + 1 + N
            /\ \A j \in k..N : heap[last.n0 + 1 + j].val = Undefined
            /\ Len(calls) <= k
            /\ k = 1 => calls = <<>>
            /\ \A c \in 2..Len(calls) : c - 1 < k /\ calls[c].arg = ArgVals[c - 1]

C19_Witness ==
    /\ last.op = "Option.liftN"
    /\ last.fn = Fn("add3", <<>>)
    /\ ArgVals = <<Num(18), Undefined, Num(4)>>
    /\ Len(calls) = 2
    /\ heap[ret.id].val = Undefined

\* C20: orElse(alternative) returns the receiver itself when it is present
\* and alternative when it is absent; so o1.orElse(o2).orElse(o3) is the
\* first present one of o1, o2, o3, and o3 when none is present.
C20_OrElseFirstPresent ==
    last.op = "orElse" =>
        /\ threw = ""
        /\ heap = Before
        /\ Held # Undefined => ret = Ref(last.this)
        /\ Held = Undefined => ret = last.arg
        /\ \A o3 \in 1..Len(heap) :
              LET b == orElse(Machine(heap), ret.id, Ref(o3))
              IN  /\ Ok(b)
                  /\ b.heap = heap
                  /\ b.ret = IF Held # Undefined THEN Ref(last.this)
                             ELSE IF heap[last.arg.id].val # Undefined THEN last.arg
                             ELSE Ref(o3)

C20_Witness ==
    /\ last.op = "orElse"
    /\ Held = Undefined
    /\ last.arg.id # last.this
    /\ heap[last.arg.id].val = Undefined
    /\ \E o3 \in 1..Len(heap) :
          /\ heap[o3].val = Num(4)
          /\ orElse(Machine(heap), ret.id, Ref(o3)).ret = Ref(o3)

\* C21: contains(value, equalityFn) is true iff the receiver is present and
\* equalityFn(contained, value) holds, equalityFn being === by default; it
\* is false on None().
C21_ContainsIff ==
    last.op = "contains" =>
        LET holds == IF last.fn = Undefined THEN StrictEquals(Held, last.arg)
                     ELSE TypeOf(Held) = TypeOf(last.arg)
        IN  /\ threw = ""
            /\ heap = Before
            /\ ret = Bool(Held # Undefined /\ holds)
            /\ Held = Undefined => ret = Bool(FALSE)

C21_Witness ==
    /\ last.op = "contains"
    /\ last.fn = Fn("sameType", <<>>)
    /\ Held = Num(1)
    /\ last.arg = Num(0)
    /\ ret = Bool(TRUE)

\* C22: toArray() returns [contained] on a present receiver and [] on an
\* absent one; toSet() returns the set of contained alone, or the empty set.
C22_ToArrayToSet ==
    /\ last.op = "toArray" =>
          /\ threw = ""
          /\ heap = Before
          /\ ret = IF Held # Undefined THEN Arr(<<Held>>) ELSE Arr(<<>>)
    /\ last.op = "toSet" =>
          /\ threw = ""
          /\ heap = Before
          /\ ret = IF Held # Undefined THEN SetOf({Held}) ELSE SetOf({})

C22_Witness ==
    /\ last.op = "toSet"
    /\ Held = Num(0)
    /\ ret = SetOf({Num(0)})

\* C23: toString() returns "Some(<string form of the contained value>)" on
\* a present receiver and "None" on an absent one; toStr() returns the same.
C23_ToStringForm ==
    last.op \in {"toString", "toStr"} =>
        /\ threw = ""
        /\ ret.t = "string"
        /\ Held = Undefined => ret = Str("None")
        /\ Held # Undefined =>
              ret = Str("Some(" \o TemplateString(Machine(heap), Held).ret.s \o ")")

\* C24: each call of log or logAndContinue writes exactly one entry:
\* customToString(receiver), called once, when one is passed, otherwise
\* receiver.toStr(); logAndContinue returns the receiver.
C24_LogWritesOneEntry ==
    last.op \in {"log", "logAndContinue"} =>
        /\ threw = ""
        /\ Len(out) = 1
        /\ heap = Before
        /\ last.fn # Undefined =>
              /\ calls = <<[fn |-> last.fn, arg |-> Ref(last.this)]>>
              /\ out[1] = Apply(Machine(heap), last.fn, Ref(last.this)).ret
        /\ last.fn = Undefined => out[1] = toStr(Machine(heap), last.this).ret
        /\ last.op = "logAndContinue" => ret = Ref(last.this)

\* C26: the static combinators agree with the methods: Option.map(fn)(opt)
\* and Option.lift(fn)(opt) are opt.map(fn), Option.flatMap(fn)(opt) is
\* opt.flatMap(fn), on present and absent Options.
C26_StaticAgree ==
    /\ last.op \in {"Option.map", "Option.lift"} =>
          LET x == heap[last.arg.id].val
              a == Apply(Machine(Before), last.fn, x)
              e == Some(a, a.ret)
          IN  /\ threw = ""
              /\ x # Undefined => heap = e.heap /\ ret = e.ret /\ calls = e.calls
              /\ x = Undefined => EqualsNone(ret) /\ calls = <<>>
    /\ last.op = "Option.flatMap" =>
          LET x == heap[last.arg.id].val
              a == Apply(Machine(Before), last.fn, x)
          IN  /\ threw = ""
              /\ x # Undefined => heap = a.heap /\ ret = a.ret /\ calls = a.calls
              /\ x = Undefined => EqualsNone(ret) /\ calls = <<>>
    /\ last.op = "map" =>
          LET s == Option_map(Machine(Before), last.fn, last.this)
              l == Option_lift(Machine(Before), last.fn, last.this)
          IN  /\ heap = s.heap /\ ret = s.ret /\ calls = s.calls
              /\ heap = l.heap /\ ret = l.ret /\ calls = l.calls
    /\ last.op = "flatMap" =>
          LET s == Option_flatMap(Machine(Before), last.fn, last.this)
          IN  heap = s.heap /\ ret = s.ret /\ calls = s.calls

C26_Witness ==
    /\ last.op = "Option.lift"
    /\ heap[last.arg.id].val = Num(0)
    /\ heap[ret.id].val = Num(1)

\* C28: then is map followed by flatten: opt.then(fn) is structurally equal
\* to opt.map(fn).flatten(), whether fn returns an Option, a plain value or
\* undefined.
C28_ThenIsMapFlatten ==
    last.op = "then" =>
        LET a == map(Machine(Before), last.this, last.fn)
            b == flatten(a, a.ret.id)
        IN  /\ threw = ""
            /\ Ok(b)
            /\ StructEq(heap, ret, b.heap, b.ret)

C28_Witness ==
    /\ last.op = "then"
    /\ last.fn = Fn("none", <<>>)
    /\ Held = Num(1)
    /\ heap[ret.id].val = Undefined

\* C29: map, flatMap, then, fold, filter, filterNot and contains never call
\* their function argument on an absent receiver, and call it exactly once,
\* with the contained value, on a present one.
C29_CallbackOnce ==
    /\ last.op \in {"map", "flatMap", "then", "fold", "filter", "filterNot"} =>
          calls = IF Held = Undefined THEN <<>>
                  ELSE <<[fn |-> last.fn, arg |-> Held]>>
    /\ (last.op = "contains" /\ last.fn # Undefined) =>
          calls = IF Held = Undefined THEN <<>>
                  ELSE <<[fn |-> last.fn, arg |-> Arr(<<Held, last.arg>>)]>>

C29_Witness ==
    /\ last.op = "filterNot"
    /\ Held = Bool(FALSE)
    /\ calls = <<[fn |-> Fn("isNumber", <<>>), arg |-> Bool(FALSE)]>>

\* C27, as stated: map satisfies the composition law for all functions,
\* those that may return undefined included: opt.map(f).map(g) equals
\* opt.map(v => g(f(v))).
C27_MapComposition ==
    (last.op = "map" /\ last.fn.f = "compose") =>
        LET a == map(Machine(Before), last.this, last.fn.args[1])
            b == map(a, a.ret.id, last.fn.args[2])
        IN  StructEq(heap, ret, b.heap, b.ret)

\* C27, amended: opt.map(f).map(g) equals opt.map(v => g(f(v))) whenever f
\* does not return undefined on the value opt holds; when it does,
\* opt.map(f).map(g) is None() and opt.map(v => g(f(v))) is
\* Some(g(undefined)).
C27_MapCompositionDefined ==
    (last.op = "map" /\ last.fn.f = "compose") =>
        LET f == last.fn.args[1]
            g == last.fn.args[2]
            a == map(Machine(Before), last.this, f)
            b == map(a, a.ret.id, g)
            collapses == Held # Undefined
                         /\ Apply(Machine(Before), f, Held).ret = Undefined
        IN  /\ threw = ""
            /\ Ok(b)
            /\ ~collapses => StructEq(heap, ret, b.heap, b.ret)
            /\ collapses =>
                  /\ ResultIsNone(b)
                  /\ EqualsSome(ret, Apply(Machine(Before), g, Undefined).ret)

C27_Witness ==
    /\ last.op = "map"
    /\ last.fn = Fn("compose", <<Fn("const", <<Undefined>>), Fn("isNumber", <<>>)>>)
    /\ Held = Num(18)
    /\ heap[ret.id].val = Bool(FALSE)

\* C30: liftN checks no arity and never throws: with more present Options
\* than fn has parameters, the full application not being a function, the
\* result is None(); with fewer, it is a present Option holding the
\* partially applied function.
C30_LiftNArityMismatch ==
    (/\ last.op = "Option.liftN"
     /\ \A i \in 1..Len(ArgVals) : ArgVals[i] # Undefined) =>
        LET N == Len(ArgVals)
            A == Arity(last.fn)
            full == ApplyCurried(last.fn, SubSeq(ArgVals, 1, A))
            partial == ApplyCurried(last.fn, ArgVals)
        IN  /\ threw = ""
            /\ (N > A /\ TypeOf(full) # "function") =>
                  /\ EqualsNone(ret)
                  /\ heap[last.n0 + 1 + A].val = full
                  /\ \A j \in (A + 1)..N : heap[last.n0 + 1 + j].val = Undefined
            /\ N < A =>
                  /\ TypeOf(partial) = "function"
                  /\ EqualsSome(ret, partial)
                  /\ heap[ret.id].val = partial

C30_Witness ==
    /\ last.op = "Option.liftN"
    /\ last.fn = Fn("pair", <<>>)
    /\ ArgVals = <<Num(18), Num(4), Num(18)>>
    /\ heap[last.n0 + 3].val = Arr(<<Num(18), Num(4)>>)
    /\ heap[ret.id].val = Undefined

\* C25: an Option is immutable once constructed: whatever public method is
\* called on it, and when it is passed to liftN, its stored value and its
\* isSome()/isNone() classification stay what they were.
C25_Immutable ==
    [][\A i \in 1..Len(heap) :
          /\ i <= Len(heap')
          /\ heap'[i] = heap[i]
          /\ isSome(Machine(heap'), i) = isSome(Machine(heap), i)
          /\ isNone(Machine(heap'), i) = isNone(Machine(heap), i)]_vars

C25_Witness ==
    /\ last.op = "Option.liftN"
    /\ last.fn = Fn("succ", <<>>)
    /\ last.arg = Arr(<<Ref(1)>>)
    /\ heap[1] = [val |-> Num(0), by |-> "Some"]
    /\ heap[ret.id].val = Num(1)

====
